---- MODULE Spec2Model ----
(***************************************************************************)
(* Stock ledger and item-code allocation of ZaikoKanri                     *)
(* (src/inventory_app.py): the SQLite store shared by the application      *)
(* processes (tables items, stock, transactions), the DB methods that      *)
(* write it, one commit at a time, and the MainWindow handlers that call   *)
(* them.                                                                   *)
(*                                                                         *)
(* A text value is a sequence of one-character strings.  The two kanji of  *)
(* the retirement suffix (U+5EC3, U+6B62) are written "HAI" and "SHI", the  *)
(* two of the "all" entry of the period boxes (U+5168, U+90E8) "ZEN" and   *)
(* "BU".                                                                   *)
(***************************************************************************)
EXTENDS Integers, Sequences, FiniteSets, TLC

(***************************************************************************)
(* Bounds of the model and constants of the program                        *)
(***************************************************************************)
\* rows of the items table
MaxItems == 2
\* movements (calls of in_stock / out_stock) that update the stock
MaxMoves == 2
\* largest quantity entered in a quantity box (the program allows 100000)
MaxQty == 2
\* largest safety stock entered in the master form
MaxSafety == 1
\* months the clock may advance
MaxClock == 1

\* limit=5000 in refresh_in_history / refresh_out_history
HistoryLimit == 5000
\* n = 10001 in get_next_code
BaseCode == 10001
\* in_qty.setRange(1, 100000): the smallest quantity a quantity box yields
MinQty == 1
\* the month the clock shows at first
Start == [year |-> 2026, month |-> 11]

Procs == {1, 2}

(***************************************************************************)
(* Text conversions                                                        *)
(***************************************************************************)
DigitChars == <<"0", "1", "2", "3", "4", "5", "6", "7", "8", "9">>

IsDigit(c) == \E k \in 1..10 : DigitChars[k] = c

DigitVal(c) == (CHOOSE k \in 1..10 : DigitChars[k] = c) - 1

\* str(n) for n >= 0
RECURSIVE IntToStr(_)
IntToStr(n) ==
    IF n < 10 THEN <<DigitChars[n + 1]>>
    ELSE IntToStr(n \div 10) \o <<DigitChars[(n % 10) + 1]>>

\* f"{n:02d}" and f"{n:04d}": str(n) padded with zeros to a width
RECURSIVE ZeroPad(_, _)
ZeroPad(s, width) == IF Len(s) >= width THEN s ELSE ZeroPad(<<"0">> \o s, width)

\* the text int() accepts: digits, single underscores allowed between digits
IntLiteral(s) ==
    /\ Len(s) > 0
    /\ IsDigit(s[1])
    /\ IsDigit(s[Len(s)])
    /\ \A k \in 1..Len(s) : IsDigit(s[k]) \/ s[k] = "_"
    /\ \A k \in 1..(Len(s) - 1) : ~(s[k] = "_" /\ s[k + 1] = "_")

RECURSIVE DigitsValue(_, _)
DigitsValue(s, acc) ==
    IF s = <<>> THEN acc
    ELSE IF s[1] = "_" THEN DigitsValue(Tail(s), acc)
    ELSE DigitsValue(Tail(s), acc * 10 + DigitVal(s[1]))

\* int(s); -1 stands for ValueError
PyInt(s) == IF IntLiteral(s) THEN DigitsValue(s, 0) ELSE -1

\* code GLOB '[0-9]*'
GlobDigitStar(s) == Len(s) > 0 /\ IsDigit(s[1])

\* datetime.now().strftime("%Y%m") when the clock shows month t
YearMonth(t) ==
    LET m0 == (Start.month - 1) + t
    IN  ZeroPad(IntToStr(Start.year + (m0 \div 12)), 4)
            \o ZeroPad(IntToStr((m0 % 12) + 1), 2)

\* f"X{old_code}_{date_str}" followed by the two-kanji suffix
RetiredCode(old_code, date_str) ==
    <<"X">> \o old_code \o <<"_">> \o date_str \o <<"HAI", "SHI">>

\* the letters of the model's texts, for the case folding of LIKE
UpperChars == <<"W", "X">>
LowerChars == <<"w", "x">>

\* LIKE compares ASCII letters without regard to case
Lower(c) ==
    IF \E k \in 1..Len(UpperChars) : UpperChars[k] = c
    THEN LowerChars[CHOOSE k \in 1..Len(UpperChars) : UpperChars[k] = c]
    ELSE c

\* str.strip()
RECURSIVE Strip(_)
Strip(s) ==
    IF s = <<>> THEN s
    ELSE IF s[1] = " " THEN Strip(Tail(s))
    ELSE IF s[Len(s)] = " " THEN Strip(SubSeq(s, 1, Len(s) - 1))
    ELSE s

\* text LIKE pat: % stands for any text, _ for any one character
RECURSIVE Like(_, _)
Like(pat, s) ==
    IF pat = <<>> THEN s = <<>>
    ELSE IF pat[1] = "%" THEN Like(Tail(pat), s) \/ (s # <<>> /\ Like(pat, Tail(s)))
    ELSE /\ s # <<>>
         /\ pat[1] = "_" \/ Lower(pat[1]) = Lower(s[1])
         /\ Like(Tail(pat), Tail(s))

\* kw = f"%{(keyword or '').strip()}%"
LikePattern(keyword) == <<"%">> \o Strip(keyword) \o <<"%">>

\* CAST(code AS INTEGER): the value of the leading digits, 0 without any
RECURSIVE CastInteger(_, _)
CastInteger(s, acc) ==
    IF s = <<>> \/ ~IsDigit(s[1]) THEN acc
    ELSE CastInteger(Tail(s), acc * 10 + DigitVal(s[1]))

\* datetime.now().strftime("%Y-%m-%d %H:%M") when the clock shows month t: the
\* clock of the model shows the first minute of a month
Timestamp(t) ==
    LET m0 == (Start.month - 1) + t
    IN  ZeroPad(IntToStr(Start.year + (m0 \div 12)), 4) \o <<"-">>
            \o ZeroPad(IntToStr((m0 % 12) + 1), 2)
            \o <<"-", "0", "1", " ", "0", "0", ":", "0", "0">>

\* the characters of a timestamp in the order of their codes
TimestampChars == <<" ", "-", "0", "1", "2", "3", "4", "5", "6", "7", "8", "9", ":">>

CharCode(c) == CHOOSE k \in 1..Len(TimestampChars) : TimestampChars[k] = c

\* a <= b for TEXT values (collation BINARY)
RECURSIVE TextLeq(_, _)
TextLeq(a, b) ==
    IF a = <<>> THEN TRUE
    ELSE IF b = <<>> THEN FALSE
    ELSE IF a[1] = b[1] THEN TextLeq(Tail(a), Tail(b))
    ELSE CharCode(a[1]) < CharCode(b[1])

\* the "all" entry of the year and month boxes
AllText == <<"ZEN", "BU">>

\* None
None == <<"None">>

\* a period range whose end is always month + 1 of the same year
get_period_range_same_year(year_text, month_text) ==
    IF year_text = AllText THEN [period |-> <<"A", "L", "L">>, start |-> None, end |-> None]
    ELSE LET y4 == ZeroPad(IntToStr(PyInt(year_text)), 4)
             first == <<"-", "0", "1", " ", "0", "0", ":", "0", "0">>
             m2(m) == ZeroPad(IntToStr(m), 2)
         IN  IF month_text = AllText
             THEN [period |-> y4,
                   start |-> y4 \o <<"-", "0", "1">> \o first,
                   end |-> y4 \o <<"-", "1", "3">> \o first]
             ELSE [period |-> y4 \o <<"-">> \o m2(PyInt(month_text)),
                   start |-> y4 \o <<"-">> \o m2(PyInt(month_text)) \o first,
                   end |-> y4 \o <<"-">> \o m2(PyInt(month_text) + 1) \o first]

\* MainWindow._get_period_range
get_period_range(year_text, month_text) ==
    IF year_text = AllText THEN [period |-> <<"A", "L", "L">>, start |-> None, end |-> None]
    ELSE LET year == PyInt(year_text)
             y4(y) == ZeroPad(IntToStr(y), 4)
             first == <<"-", "0", "1", " ", "0", "0", ":", "0", "0">>
         IN  IF month_text = AllText
             THEN [period |-> y4(year),
                   start |-> y4(year) \o <<"-", "0", "1">> \o first,
                   end |-> y4(year + 1) \o <<"-", "0", "1">> \o first]
             ELSE LET month == PyInt(month_text)
                      m2(m) == ZeroPad(IntToStr(m), 2)
                  IN  [period |-> y4(year) \o <<"-">> \o m2(month),
                       start |-> y4(year) \o <<"-">> \o m2(month) \o first,
                       end |-> IF month = 12
                               THEN y4(year + 1) \o <<"-", "0", "1">> \o first
                               ELSE y4(year) \o <<"-">> \o m2(month + 1) \o first]

(***************************************************************************)
(* State                                                                   *)
(***************************************************************************)
VARIABLES
    items,         \* table items: row id -> [code, name, safety_stock, is_active]
    stock,         \* table stock: item_id -> qty, for the item ids that have a row
    transactions,  \* table transactions: row id -> [ts, type, item_id, qty]
    now,           \* the clock, in months since Start
    op,            \* per process: the _do_in / _do_out handler in progress
    form,          \* per process: _master_item_id (0 = None) and the master_code text
    result,        \* the handler that ended last: its process and how it ended
    forced,        \* item ids that had an outbound recorded after a Yes to the dialog
    moves          \* how many times _update_stock has committed

vars == <<items, stock, transactions, now, op, form, result, forced, moves>>

ItemIds == 1..Len(items)

EmptyText == <<>>

Idle == [pc |-> "idle", type |-> "IN", item |-> 0, qty |-> 0, confirmed |-> FALSE,
         advisory |-> FALSE]

(***************************************************************************)
(* User input                                                              *)
(***************************************************************************)
\* codes a user types or scans: the first numeral code, and a text that is no
\* numeral but that int() reads as 10001
TypedCodes == {IntToStr(BaseCode), <<"1", "_", "0", "0", "0", "1">>}

\* names a user types; the empty text is a blank name field
TypedNames == {EmptyText, <<"W">>}

(***************************************************************************)
(* DB: reads                                                               *)
(***************************************************************************)
\* the set `used` of get_next_code
UsedCodes(its) ==
    {PyInt(its[i].code) : i \in {j \in 1..Len(its) :
        GlobDigitStar(its[j].code) /\ PyInt(its[j].code) # -1}}

RECURSIVE FirstFree(_, _)
FirstFree(n, used) == IF n \in used THEN FirstFree(n + 1, used) ELSE n

\* the test.py variant: one more than the largest code in use
MaxPlusOne(its) ==
    LET used == UsedCodes(its)
    IN  IF used = {} THEN IntToStr(BaseCode)
        ELSE IntToStr((CHOOSE n \in used : \A m \in used : m <= n) + 1)

get_next_code(its) == IntToStr(FirstFree(BaseCode, UsedCodes(its)))

\* a lookup that also returns rows with is_active = 0
get_item_by_code_any(its, code) ==
    IF \E i \in 1..Len(its) : its[i].code = code
    THEN CHOOSE i \in 1..Len(its) : its[i].code = code
    ELSE 0

\* the id of the row get_item_by_code returns, 0 for no row
get_item_by_code(its, code) ==
    IF \E i \in 1..Len(its) : its[i].code = code /\ its[i].active
    THEN CHOOSE i \in 1..Len(its) : its[i].code = code /\ its[i].active
    ELSE 0

\* COALESCE(s.qty, 0) of get_item_by_code
StockQty(st, id) == IF id \in DOMAIN st THEN st[id] ELSE 0

\* SUM(CASE WHEN type='IN' THEN qty ELSE -qty END) ... GROUP BY item_id of list_items
RECURSIVE ReplaySum(_, _)
ReplaySum(txs, id) ==
    IF txs = <<>> THEN 0
    ELSE ReplaySum(Tail(txs), id)
            + (IF txs[1].item_id # id THEN 0
               ELSE IF txs[1].type = "IN" THEN txs[1].qty ELSE -txs[1].qty)

\* the orders in which ORDER BY may return the rows S, key[x] being the rank
\* of row x under the sort key: rows of equal rank come in any order
RECURSIVE OrderedBy(_, _)
OrderedBy(S, key) ==
    IF S = {} THEN {<<>>}
    ELSE UNION {{<<x>> \o rest : rest \in OrderedBy(S \ {x}, key)} :
                x \in {y \in S : \A z \in S : key[y] <= key[z]}}

\* the row lists list_items may return; the columns location, unit and note
\* are blank.  (pat, found and key are each bound to their one value.)
list_items(its, txs, keyword) ==
    UNION {UNION {UNION {
        {[k \in 1..Len(f) |->
            [id |-> f[k], code |-> its[f[k]].code, qty |-> ReplaySum(txs, f[k])]] :
         f \in OrderedBy(found, key)} :
        key \in {[i \in found |-> CastInteger(its[i].code, 0)]}} :
        found \in {{i \in 1..Len(its) :
                    /\ its[i].active
                    /\ \/ Like(pat, its[i].code)
                       \/ Like(pat, its[i].name)
                       \/ Like(pat, EmptyText)}}} :
        pat \in {LikePattern(keyword)}}

\* a value Python takes as true in `if start_ts and end_ts`
Truthy(x) == x # None /\ x # EmptyText

\* the row lists list_transactions_by_type may return; the columns location
\* and note of the item and the counterparty columns of the entry are blank.
\* ORDER BY t.ts DESC: a row ranks by the number of rows whose ts is not below
\* its own.  (pat, ts, found and key are each bound to their one value.)
list_transactions_by_type(txs, its, tx_type, keyword, limit, start_ts, end_ts) ==
    UNION {UNION {UNION {
        {[n \in 1..(IF limit < Len(f) THEN limit ELSE Len(f)) |->
            [id |-> f[n], ts |-> ts[f[n]], code |-> its[txs[f[n]].item_id].code]] :
         f \in OrderedBy(found, key)} :
        key \in {[k \in found |->
                    Cardinality({j \in found : TextLeq(ts[k], ts[j])})]}} :
        found \in {{k \in 1..Len(txs) :
                    /\ txs[k].item_id \in 1..Len(its)
                    /\ txs[k].type = tx_type
                    /\ (Truthy(start_ts) /\ Truthy(end_ts))
                        => (TextLeq(start_ts, ts[k]) /\ ~TextLeq(end_ts, ts[k]))
                    /\ \/ Like(pat, its[txs[k].item_id].code)
                       \/ Like(pat, its[txs[k].item_id].name)
                       \/ Like(pat, EmptyText)}}} :
        pat \in {LikePattern(keyword)},
        ts \in {[k \in 1..Len(txs) |-> Timestamp(txs[k].ts)]}}

(***************************************************************************)
(* DB: writes, each one committed transaction                              *)
(***************************************************************************)
\* a uniqueness test that looks at the active rows only
CodeTakenActive(its, code, except) ==
    \E i \in 1..Len(its) : i # except /\ its[i].active /\ its[i].code = code

\* a uniqueness test applied to INSERT only, never to UPDATE
CodeTakenOnInsert(its, code, except) ==
    except = 0 /\ \E i \in 1..Len(its) : its[i].code = code

\* items.code is UNIQUE: a row other than `except` holds the code
CodeTaken(its, code, except) ==
    \E i \in 1..Len(its) : i # except /\ its[i].code = code

add_item(its, code, name, safety) ==
    Append(its, [code |-> code, name |-> name, safety |-> safety, active |-> TRUE])

update_item(its, id, code, name, safety, is_active) ==
    [i \in 1..Len(its) |->
        IF i = id
        THEN [code |-> code, name |-> name, safety |-> safety, active |-> is_active]
        ELSE its[i]]

deactivate_item_free_code(its, id, date_str) ==
    [its EXCEPT ![id] = [@ EXCEPT !.active = FALSE,
                                  !.code = RetiredCode(its[id].code, date_str)]]

\* a stock update that stores the delta instead of adding it
update_stock_replace(st, id, delta) ==
    [i \in (DOMAIN st) \cup {id} |-> IF i = id THEN delta ELSE StockQty(st, i)]

\* INSERT OR IGNORE INTO stock ...; UPDATE stock SET qty = qty + delta
update_stock(st, id, delta) ==
    [i \in (DOMAIN st) \cup {id} |-> StockQty(st, i) + (IF i = id THEN delta ELSE 0)]

\* a ledger write that overwrites the newest entry
add_tx_replace(txs, ts, type, id, qty) ==
    SubSeq(txs, 1, Len(txs) - 1)
        \o <<[ts |-> ts, type |-> type, item_id |-> id, qty |-> qty]>>

\* a ledger write that puts the new entry first, moving every row id up
add_tx_first(txs, ts, type, id, qty) ==
    <<[ts |-> ts, type |-> type, item_id |-> id, qty |-> qty]>> \o txs

\* add_in_tx / add_out_tx
add_tx(txs, ts, type, id, qty) ==
    Append(txs, [ts |-> ts, type |-> type, item_id |-> id, qty |-> qty])

(***************************************************************************)
(* Initial state: DB.__init__ on a new store, MainWindow.__init__          *)
(***************************************************************************)
Init ==
    /\ items = <<>>
    /\ stock = <<>>
    /\ transactions = <<>>
    /\ now = 0
    /\ op = [p \in Procs |-> Idle]
    /\ form = [p \in Procs |-> [id |-> 0, code |-> EmptyText]]
    /\ result = [proc |-> 0, kind |-> "none"]
    /\ forced = {}
    /\ moves = 0

\* a handler of process p ends with outcome r, the store untouched
Ends(p, r) ==
    /\ result' = [proc |-> p, kind |-> r]
    /\ UNCHANGED <<items, stock, transactions, now, op, form, forced, moves>>

\* the movements begun and not yet at their stock update leave room for one more
TxRoom == moves + Cardinality({q \in Procs : op[q].pc \in {"ask", "update"}}) < MaxMoves

(***************************************************************************)
(* MainWindow: the master tab                                              *)
(***************************************************************************)
\* the user edits the master_code field
MasterTypeCode(p, code) ==
    /\ op[p].pc = "idle"
    /\ form' = [form EXCEPT ![p].code = code]
    /\ UNCHANGED <<items, stock, transactions, now, op, result, forced, moves>>

\* a new-code button that reserves the code it shows
master_new_reserves(p) ==
    /\ op[p].pc = "idle"
    /\ Len(items) < MaxItems
    /\ form' = [form EXCEPT ![p] = [id |-> 0, code |-> get_next_code(items)]]
    /\ items' = add_item(items, get_next_code(items), EmptyText, 0)
    /\ UNCHANGED <<stock, transactions, now, op, result, forced, moves>>

master_new(p) ==
    /\ op[p].pc = "idle"
    /\ form' = [form EXCEPT ![p] = [id |-> 0, code |-> get_next_code(items)]]
    /\ UNCHANGED <<items, stock, transactions, now, op, result, forced, moves>>

master_find(p) ==
    /\ op[p].pc = "idle"
    /\ LET code == form[p].code
           item == get_item_by_code(items, code)
       IN  IF code = EmptyText THEN Ends(p, "input_error")
           ELSE IF item = 0 THEN Ends(p, "not_found")
           ELSE /\ form' = [form EXCEPT ![p].id = item]
                /\ UNCHANGED <<items, stock, transactions, now, op, result, forced, moves>>

master_save(p, name, safety) ==
    /\ op[p].pc = "idle"
    /\ LET code == form[p].code
           id == form[p].id
       IN  IF code = EmptyText \/ name = EmptyText THEN Ends(p, "input_error")
           ELSE IF CodeTaken(items, code, id) THEN Ends(p, "duplicate")
           ELSE /\ id = 0 => Len(items) < MaxItems
                /\ items' = IF id = 0 THEN add_item(items, code, name, safety)
                            ELSE update_item(items, id, code, name, safety, TRUE)
                /\ result' = [proc |-> p, kind |-> "ok"]
                /\ UNCHANGED <<stock, transactions, now, op, form, forced, moves>>

master_delete(p, yes) ==
    /\ op[p].pc = "idle"
    /\ LET id == form[p].id
       IN  IF id = 0 THEN Ends(p, "input_error")
           ELSE IF ~yes THEN Ends(p, "cancelled")
           ELSE IF id \notin ItemIds THEN Ends(p, "error")
           ELSE IF CodeTaken(items, RetiredCode(items[id].code, YearMonth(now)), id)
           THEN Ends(p, "error")
           ELSE /\ items' = deactivate_item_free_code(items, id, YearMonth(now))
                /\ form' = [form EXCEPT ![p] = [id |-> 0, code |-> EmptyText]]
                /\ result' = [proc |-> p, kind |-> "ok"]
                /\ UNCHANGED <<stock, transactions, now, op, forced, moves>>

(***************************************************************************)
(* MainWindow: the inbound and outbound tabs                               *)
(***************************************************************************)
Movement(type, item, qty, pc, advisory) ==
    [pc |-> pc, type |-> type, item |-> item, qty |-> qty, confirmed |-> FALSE,
     advisory |-> advisory]

\* _do_in up to the call of in_stock
DoIn(p, code, qty) ==
    /\ op[p].pc = "idle"
    /\ LET item == get_item_by_code(items, code)
       IN  IF item = 0 THEN Ends(p, "not_found")
           ELSE /\ TxRoom
                /\ op' = [op EXCEPT ![p] = Movement("IN", item, qty, "update", FALSE)]
                /\ UNCHANGED <<items, stock, transactions, now, form, result, forced, moves>>

\* a decision that never asks before a negative balance
OutDecisionNeverAsks(now_qty, qty, safety) ==
    IF now_qty - qty < safety THEN "advise" ELSE "go"

\* a decision that also informs when the balance lands on the safety stock
OutDecisionAtSafety(now_qty, qty, safety) ==
    IF now_qty - qty < 0 THEN "ask"
    ELSE IF now_qty - qty <= safety THEN "advise"
    ELSE "go"

\* what _do_out does once it has read the item: ask, inform, or go on
OutDecision(now_qty, qty, safety) ==
    IF now_qty - qty < 0 THEN "ask"
    ELSE IF now_qty - qty < safety THEN "advise"
    ELSE "go"

\* _do_out up to the dialog or the call of out_stock
DoOut(p, code, qty) ==
    /\ op[p].pc = "idle"
    /\ LET item == get_item_by_code(items, code)
       IN  IF item = 0 THEN Ends(p, "not_found")
           ELSE LET now_qty == StockQty(stock, item)
                    d == OutDecision(now_qty, qty, items[item].safety)
                IN  /\ TxRoom
                    /\ op' = [op EXCEPT ![p] =
                                Movement("OUT", item, qty,
                                         IF d = "ask" THEN "ask" ELSE "update",
                                         d = "advise")]
                    /\ UNCHANGED <<items, stock, transactions, now, form, result, forced, moves>>

\* the user answers the forced-outbound question
OutAnswer(p, yes) ==
    /\ op[p].pc = "ask"
    /\ IF yes
       THEN /\ op' = [op EXCEPT ![p].pc = "update", ![p].confirmed = TRUE]
            /\ UNCHANGED result
       ELSE /\ op' = [op EXCEPT ![p] = Idle]
            /\ result' = [proc |-> p, kind |-> "cancelled"]
    /\ UNCHANGED <<items, stock, transactions, now, form, forced, moves>>

(***************************************************************************)
(* DB.in_stock / DB.out_stock, one commit at a time                        *)
(***************************************************************************)
\* out_stock passing qty where it passes -qty
DeltaUnsigned(o) == o.qty

\* the delta in_stock and out_stock hand to _update_stock
Delta(o) == IF o.type = "IN" THEN o.qty ELSE -o.qty

\* self._update_stock(item_id, +-qty)
UpdateStock(p) ==
    /\ op[p].pc = "update"
    /\ stock' = update_stock(stock, op[p].item, Delta(op[p]))
    /\ op' = [op EXCEPT ![p].pc = "tx"]
    /\ forced' = IF op[p].confirmed THEN forced \cup {op[p].item} ELSE forced
    /\ moves' = moves + 1
    /\ UNCHANGED <<items, transactions, now, form, result>>

\* self.add_in_tx(...) / self.add_out_tx(...), then the handler's "done" message
AddTx(p) ==
    /\ op[p].pc = "tx"
    /\ transactions' = add_tx(transactions, now, op[p].type, op[p].item, op[p].qty)
    /\ op' = [op EXCEPT ![p] = Idle]
    /\ result' = [proc |-> p, kind |-> IF op[p].advisory THEN "ok_advised" ELSE "ok"]
    /\ UNCHANGED <<items, stock, now, form, forced, moves>>

\* a write finds the store locked for longer than busy_timeout: the statement
\* raises, the handler ends there
StoreBusy(p) ==
    /\ op[p].pc \in {"update", "tx"}
    /\ op' = [op EXCEPT ![p] = Idle]
    /\ result' = [proc |-> p, kind |-> "busy"]
    /\ UNCHANGED <<items, stock, transactions, now, form, forced, moves>>

\* a statement that waits for the store for good
StoreWaitsForever(p) ==
    /\ op[p].pc \in {"update", "tx"}
    /\ UNCHANGED vars

\* timeout=30 and busy_timeout = 30000: a write statement that has been issued
\* runs, or raises once the store has been locked for that long
BusyHandlerReturns(p) ==
    UpdateStock(p) \/ AddTx(p) \/ StoreBusy(p)

\* DB.in_stock called by any caller, with any arguments
in_stock(p, item_id, qty) ==
    /\ op[p].pc = "idle"
    /\ TxRoom
    /\ op' = [op EXCEPT ![p] = Movement("IN", item_id, qty, "update", FALSE)]
    /\ UNCHANGED <<items, stock, transactions, now, form, result, forced, moves>>

\* DB.out_stock called by any caller, with any arguments
out_stock(p, item_id, qty) ==
    /\ op[p].pc = "idle"
    /\ TxRoom
    /\ op' = [op EXCEPT ![p] = Movement("OUT", item_id, qty, "update", FALSE)]
    /\ UNCHANGED <<items, stock, transactions, now, form, result, forced, moves>>

\* the stock tab: the search button, with the text of the search field
refresh_stock_list(p, keyword) ==
    /\ op[p].pc = "idle"
    /\ \E rows \in list_items(items, transactions, Strip(keyword)) :
            result' = [proc |-> p, kind |-> "items", keyword |-> keyword, rows |-> rows]
    /\ UNCHANGED <<items, stock, transactions, now, op, form, forced, moves>>

\* the history tabs: refresh_in_history (tx_type IN) and refresh_out_history
\* (tx_type OUT), with the text of the search field and of the period boxes
refresh_history(p, tx_type, keyword, year_text, month_text) ==
    /\ op[p].pc = "idle"
    /\ LET range == get_period_range(year_text, month_text)
       IN  \E rows \in list_transactions_by_type(transactions, items, tx_type,
                            Strip(keyword), HistoryLimit, range.start, range.end) :
                result' = [proc |-> p, kind |-> "rows", type |-> tx_type,
                           keyword |-> keyword, limit |-> HistoryLimit,
                           start |-> range.start, end |-> range.end, rows |-> rows]
    /\ UNCHANGED <<items, stock, transactions, now, op, form, forced, moves>>

\* DB.list_transactions_by_type called with a limit, no keyword and no range
list_transactions_call(p, tx_type, limit) ==
    /\ op[p].pc = "idle"
    /\ \E rows \in list_transactions_by_type(transactions, items, tx_type,
                        EmptyText, limit, None, None) :
            result' = [proc |-> p, kind |-> "rows", type |-> tx_type,
                       keyword |-> EmptyText, limit |-> limit,
                       start |-> None, end |-> None, rows |-> rows]
    /\ UNCHANGED <<items, stock, transactions, now, op, form, forced, moves>>

\* time passes
Tick ==
    /\ now < MaxClock
    /\ now' = now + 1
    /\ UNCHANGED <<items, stock, transactions, op, form, result, forced, moves>>

(***************************************************************************)
(* Specifications                                                          *)
(***************************************************************************)
\* the codes a user can scan: typed ones and the codes on the labels of the items
ScanCodes == TypedCodes \cup {items[i].code : i \in ItemIds}

\* the quantities entered: the smallest the box allows, and a larger one
Quantities == {MinQty, MaxQty}

\* the safety stocks entered
Safeties == {0, MaxSafety}

MasterNext(p, safeties) ==
    \/ \E code \in TypedCodes : MasterTypeCode(p, code)
    \/ master_new(p)
    \/ master_find(p)
    \/ \E name \in TypedNames, safety \in safeties : master_save(p, name, safety)
    \/ \E yes \in BOOLEAN : master_delete(p, yes)

LedgerNext(p) ==
    \/ \E code \in ScanCodes, qty \in Quantities : DoIn(p, code, qty)
    \/ \E code \in ScanCodes, qty \in Quantities : DoOut(p, code, qty)
    \/ \E yes \in BOOLEAN : OutAnswer(p, yes)
    \/ UpdateStock(p)
    \/ AddTx(p)

\* one application process, started on a new store
Next ==
    \/ MasterNext(1, Safeties)
    \/ LedgerNext(1)

Spec == Init /\ [][Next]_vars

\* a store in which two items were registered under the first two codes and
\* the first one has had an inbound movement
Registered(s1, s2) ==
    add_item(add_item(<<>>, IntToStr(BaseCode), <<"W">>, s1),
             IntToStr(BaseCode + 1), <<"W">>, s2)

InitLedger ==
    /\ \E s1 \in Safeties : items = Registered(s1, 0)
    /\ \E b \in Quantities :
        /\ stock = update_stock(<<>>, 1, b)
        /\ transactions = add_tx(<<>>, 0, "IN", 1, b)
    /\ now = 0
    /\ op = [p \in Procs |-> Idle]
    /\ form = [p \in Procs |-> [id |-> 0, code |-> EmptyText]]
    /\ result = [proc |-> 0, kind |-> "none"]
    /\ forced = {}
    /\ moves = 0

\* the application processes sharing the store, recording movements
NextLedger ==
    \/ \E p \in Procs : LedgerNext(p)
    \/ \E p \in Procs : StoreBusy(p)

SpecLedger == InitLedger /\ [][NextLedger]_vars

\* one application process recording movements, nothing else writing the store
NextSolo == LedgerNext(1)

SpecSolo == InitLedger /\ [][NextSolo]_vars

\* the application processes sharing the store, recording movements, every
\* write getting the store within busy_timeout
NextConcurrent == \E p \in Procs : LedgerNext(p)

SpecConcurrent == InitLedger /\ [][NextConcurrent]_vars

\* one application process recording movements and maintaining the items the
\* movements refer to
NextHistory ==
    \/ MasterNext(1, {0})
    \/ \E code \in ScanCodes : DoIn(1, code, MinQty)
    \/ \E code \in ScanCodes : DoOut(1, code, MinQty)
    \/ \E yes \in BOOLEAN : OutAnswer(1, yes)
    \/ UpdateStock(1)
    \/ AddTx(1)

SpecHistory == InitLedger /\ [][NextHistory]_vars

\* the DB methods in_stock and out_stock called directly: item ids known and
\* unknown, quantities negative, zero and positive
ApiQuantities == {-1, 0} \cup Quantities

NextApi ==
    \/ \E id \in 1..(Len(items) + 1), qty \in ApiQuantities : in_stock(1, id, qty)
    \/ \E id \in 1..(Len(items) + 1), qty \in ApiQuantities : out_stock(1, id, qty)
    \/ UpdateStock(1)
    \/ AddTx(1)

SpecApi == InitLedger /\ [][NextApi]_vars

\* the item master maintained on the master tab while callers of the DB
\* methods record inbound movements of one piece under item ids known and
\* unknown
NextStore ==
    \/ MasterNext(1, {0})
    \/ \E id \in 1..(Len(items) + 1) : in_stock(1, id, MinQty)
    \/ UpdateStock(1)
    \/ AddTx(1)

SpecStore == Init /\ [][NextStore]_vars

\* the application processes sharing the store, maintaining the item master
NextMaster ==
    \E p \in Procs : MasterNext(p, {0})

SpecMaster == Init /\ [][NextMaster]_vars

\* one application process maintaining the item master while months pass
NextRetire ==
    \/ MasterNext(1, {0})
    \/ Tick

SpecRetire == Init /\ [][NextRetire]_vars

\* a code a user types that has the form deactivate_item_free_code gives the
\* code of a retired item
TypedMarker == RetiredCode(IntToStr(BaseCode), YearMonth(0))

\* one application process maintaining the item master, the user also typing
\* a code of the retired form
NextTyped ==
    \/ MasterNext(1, {0})
    \/ MasterTypeCode(1, TypedMarker)

SpecTyped == Init /\ [][NextTyped]_vars

\* texts typed in the search fields: nothing, a name in the other case with a
\* blank before it, a digit, and the two characters LIKE gives a meaning
Keywords == {EmptyText, <<" ", "w">>, <<"2">>, <<"_">>, <<"%">>}

\* the entries of the year box and of the month box that a user picks
YearTexts == {AllText} \cup {IntToStr(Start.year + y) : y \in 0..1}
MonthTexts == {AllText} \cup {ZeroPad(IntToStr(m), 2) : m \in {1, Start.month, 12}}

\* texts typed in the search field of a history tab
HistoryKeywords == {EmptyText, <<"2">>, <<"_">>}

\* the limits a caller of list_transactions_by_type passes
Limits == {1, HistoryLimit}

\* a store with the first two codes registered and one inbound of the first
InitQuery ==
    /\ items = Registered(0, 0)
    /\ stock = update_stock(<<>>, 1, MinQty)
    /\ transactions = add_tx(<<>>, 0, "IN", 1, MinQty)
    /\ now = 0
    /\ op = [p \in Procs |-> Idle]
    /\ form = [p \in Procs |-> [id |-> 0, code |-> EmptyText]]
    /\ result = [proc |-> 0, kind |-> "none"]
    /\ forced = {}
    /\ moves = 0

\* one application process recording movements of one piece while months pass
MovementsNext ==
    \/ \E code \in ScanCodes : DoIn(1, code, MinQty)
    \/ \E code \in ScanCodes : DoOut(1, code, MinQty)
    \/ \E yes \in BOOLEAN : OutAnswer(1, yes)
    \/ UpdateStock(1)
    \/ AddTx(1)
    \/ Tick

\* ... and looking at the history tabs with a keyword
NextQuery ==
    \/ MovementsNext
    \/ \E tx_type \in {"IN", "OUT"}, keyword \in HistoryKeywords,
          year_text \in {AllText, IntToStr(Start.year)},
          month_text \in {AllText, ZeroPad(IntToStr(12), 2)} :
            refresh_history(1, tx_type, keyword, year_text, month_text)
    \/ \E tx_type \in {"IN", "OUT"}, limit \in Limits :
            list_transactions_call(1, tx_type, limit)

SpecQuery == InitQuery /\ [][NextQuery]_vars

\* one application process recording inbound movements while months pass, and
\* looking at the inbound history period by period
NextPeriod ==
    \/ \E code \in ScanCodes : DoIn(1, code, MinQty)
    \/ UpdateStock(1)
    \/ AddTx(1)
    \/ Tick
    \/ \E year_text \in YearTexts, month_text \in MonthTexts :
            refresh_history(1, "IN", EmptyText, year_text, month_text)

SpecPeriod == InitQuery /\ [][NextPeriod]_vars

\* the application processes sharing the store, recording inbound movements of
\* one piece; a write may find the store locked by the other process, and no
\* write waits longer than busy_timeout
NextBusy ==
    \/ \E p \in Procs, code \in ScanCodes : DoIn(p, code, MinQty)
    \/ \E p \in Procs : UpdateStock(p)
    \/ \E p \in Procs : AddTx(p)
    \/ \E p \in Procs : StoreBusy(p)

SpecBusy ==
    /\ InitQuery
    /\ [][NextBusy]_vars
    /\ \A p \in Procs : WF_vars(BusyHandlerReturns(p))

\* one application process maintaining the item master and searching the
\* stock list
NextLookup ==
    \/ NextTyped
    \/ \E keyword \in Keywords : refresh_stock_list(1, keyword)

SpecLookup == Init /\ [][NextLookup]_vars

(***************************************************************************)
(* Claims                                                                  *)
(***************************************************************************)
Balance(id) == StockQty(stock, id)

\* C1: in every reachable state the cached balance of every item (stock.qty, 0
\* without a stock row) equals the sum of its IN entries minus the sum of its
\* OUT entries.
C1_ReplayEquivalence ==
    \A id \in ItemIds : Balance(id) = ReplaySum(transactions, id)

\* C2: in_stock and out_stock are atomic: no step of the store changes the
\* balances without appending the ledger entry, or appends an entry without
\* changing a balance.
C2_MovementAtomic ==
    [][(stock' # stock) <=> (transactions' # transactions)]_vars

\* a decimal numeral: digits only
AllDigits(s) == Len(s) > 0 /\ \A k \in 1..Len(s) : IsDigit(s[k])

\* the integers that are the numeral code of an active item
ActiveNumerals(its) ==
    {DigitsValue(its[i].code, 0) :
        i \in {j \in 1..Len(its) : its[j].active /\ AllDigits(its[j].code)}}

\* the smallest integer >= BaseCode that no active item holds as its numeral code
MinFree(its) ==
    CHOOSE n \in BaseCode..(BaseCode + Len(its)) :
        /\ n \notin ActiveNumerals(its)
        /\ \A m \in BaseCode..(n - 1) : m \in ActiveNumerals(its)

\* C3: for every reachable item set get_next_code returns the smallest integer
\* >= 10001 that is not the numeral code of an active item.
C3_NextCodeIsMin == get_next_code(items) = IntToStr(MinFree(items))

\* C4: when a step retires an active item with numeral code N and N is then the
\* smallest integer >= 10001 held by no active item, get_next_code returns N.
C4_RetiredCodeReissued ==
    [][\A id \in ItemIds :
        (/\ items[id].active
         /\ AllDigits(items[id].code)
         /\ Len(items') = Len(items)
         /\ ~items'[id].active
         /\ MinFree(items') = DigitsValue(items[id].code, 0))
        => get_next_code(items') = IntToStr(DigitsValue(items[id].code, 0))]_vars

\* the entry add_in_tx / add_out_tx appends for the movement o
Entry(o) == [ts |-> now, type |-> o.type, item_id |-> o.item, qty |-> o.qty]

\* process p's handler moves on in this step
Steps(p) == op'[p] # op[p]

\* process p's handler calls in_stock / out_stock in this step
Begins(p, type) == op[p].pc = "idle" /\ op'[p].pc # "idle" /\ op'[p].type = type

\* C5: an outbound of more than the balance _do_out reads opens the
\* forced-outbound question, and when the answer is not Yes the handler ends
\* with no ledger entry appended and no balance changed; it goes on to the
\* stock update only after a Yes.
C5_UnconfirmedShortfallRejected ==
    [][\A p \in Procs :
        /\ (Begins(p, "OUT") /\ Balance(op'[p].item) < op'[p].qty)
            => (op'[p].pc = "ask" /\ ~op'[p].confirmed)
        /\ (op[p].pc = "ask" /\ Steps(p))
            => \/ op'[p].pc = "update" /\ op'[p].confirmed
               \/ /\ op'[p] = Idle
                  /\ result' = [proc |-> p, kind |-> "cancelled"]
                  /\ stock' = stock
                  /\ transactions' = transactions]_vars

\* an outbound was declined at the question
C5_Witness ==
    /\ result.kind = "cancelled"
    /\ \A p \in Procs : op[p].pc = "idle"
    /\ C1_ReplayEquivalence

\* C6: the balance of an item is negative only if an outbound for it was
\* recorded after a Yes to the forced-outbound question.
C6_NegativeOnlyIfForced ==
    \A id \in ItemIds : Balance(id) < 0 => id \in forced

\* C7: a confirmed outbound of more than the balance is carried out: the stock
\* update takes the balance to (old balance - quantity), which is negative, and
\* the handler ends having appended exactly one OUT entry with that quantity.
C7_ForcedOutboundRecorded ==
    [][\A p \in Procs :
        (op[p].confirmed /\ Steps(p))
        => \/ /\ op[p].pc = "update" /\ op'[p].pc = "tx"
              /\ StockQty(stock', op[p].item) = Balance(op[p].item) - op[p].qty
              /\ StockQty(stock', op[p].item) < 0
              /\ transactions' = transactions
           \/ /\ op[p].pc = "tx" /\ op'[p] = Idle
              /\ op[p].type = "OUT"
              /\ transactions' = Append(transactions, Entry(op[p]))
              /\ stock' = stock
              /\ result' = [proc |-> p, kind |-> "ok"]]_vars

\* a forced outbound has been recorded and has left its item negative
C7_Witness ==
    /\ op[1].pc = "idle"
    /\ result.kind = "ok"
    /\ Len(transactions) > 1
    /\ LET last == transactions[Len(transactions)]
       IN  /\ last.type = "OUT"
           /\ last.item_id \in forced
           /\ Balance(last.item_id) < 0

\* C8: in_stock / out_stock with a quantity of 0 or less append no entry, so
\* every ledger entry has a quantity of at least 1.
C8_EntriesPositive ==
    \A k \in 1..Len(transactions) : transactions[k].qty >= 1

\* C9: _do_out raises the safety-stock advisory exactly when
\* 0 <= balance - quantity < safety stock, and an advised outbound is always
\* carried out: its stock update takes the balance to balance - quantity, and
\* it ends having appended its OUT entry.
C9_SafetyAdvisory ==
    [][\A p \in Procs :
        /\ Begins(p, "OUT")
            => LET after == Balance(op'[p].item) - op'[p].qty
               IN  op'[p].advisory
                     <=> (0 <= after /\ after < items[op'[p].item].safety)
        /\ (op[p].advisory /\ Steps(p))
            => \/ /\ op[p].pc = "update" /\ op'[p] = [op[p] EXCEPT !.pc = "tx"]
                  /\ StockQty(stock', op[p].item) = Balance(op[p].item) - op[p].qty
                  /\ 0 <= StockQty(stock', op[p].item)
                  /\ StockQty(stock', op[p].item) < items[op[p].item].safety
               \/ /\ op[p].pc = "tx" /\ op'[p] = Idle
                  /\ transactions' = Append(transactions, Entry(op[p]))
                  /\ result' = [proc |-> p, kind |-> "ok_advised"]]_vars

\* an advised outbound has been recorded
C9_Witness ==
    /\ op[1].pc = "idle"
    /\ result.kind = "ok_advised"
    /\ LET last == transactions[Len(transactions)]
       IN  /\ last.type = "OUT"
           /\ 0 <= Balance(last.item_id)
           /\ Balance(last.item_id) < items[last.item_id].safety

\* C10: the stock update of a movement changes the balance of its item by
\* exactly its quantity (up for IN, down for OUT) and nothing else; the ledger
\* write of a movement appends exactly its entry and changes nothing else; no
\* item row changes.
C10_MovementFrame ==
    [][\A p \in Procs :
        /\ (op[p].pc = "update" /\ op'[p].pc = "tx")
            => /\ StockQty(stock', op[p].item)
                    = Balance(op[p].item)
                        + (IF op[p].type = "IN" THEN op[p].qty ELSE -op[p].qty)
               /\ \A j \in (ItemIds \cup DOMAIN stock \cup DOMAIN stock') \ {op[p].item} :
                    StockQty(stock', j) = Balance(j)
               /\ transactions' = transactions
               /\ items' = items
        /\ (op[p].pc = "tx" /\ op'[p].pc = "idle" /\ result'.kind # "busy")
            => /\ transactions' = Append(transactions, Entry(op[p]))
               /\ stock' = stock
               /\ items' = items]_vars

\* an inbound has been recorded and has taken its item above the largest
\* quantity entered at once, while the other item has no movement
C10_Witness ==
    /\ \A p \in Procs : op[p].pc = "idle"
    /\ result.kind = "ok"
    /\ transactions[Len(transactions)].type = "IN"
    /\ Balance(transactions[Len(transactions)].item_id) > MaxQty
    /\ \E id \in ItemIds : Balance(id) = 0 /\ ReplaySum(transactions, id) = 0

\* some item other than `id` has the code
HeldByOther(code, id) == \E i \in ItemIds : i # id /\ items[i].code = code

\* C11: in every reachable state no two items, active or retired, have the same
\* code.
C11_CodesUnique ==
    \A i, j \in ItemIds : i # j => items[i].code # items[j].code

\* the code of a retired item has been given to a new item
C11_Witness ==
    \E i, j \in ItemIds :
        /\ ~items[i].active
        /\ items[j].active
        /\ items[i].code = RetiredCode(items[j].code, YearMonth(now))

\* C12: master_save with a code that another item holds, as a create
\* (_master_item_id None: any item) or as an update (a different item), ends
\* with the duplicate-code warning and leaves the item set and every item's
\* attributes unchanged.
C12_DuplicateRejected ==
    [][\A p \in Procs, name \in TypedNames \ {EmptyText} :
        (/\ master_save(p, name, 0)
         /\ form[p].code # EmptyText
         /\ HeldByOther(form[p].code, form[p].id))
        => /\ result' = [proc |-> p, kind |-> "duplicate"]
           /\ items' = items]_vars

\* a create under the code of a retired item has been refused
C12_Witness ==
    /\ result.kind = "duplicate"
    /\ form[result.proc].id = 0
    /\ \E i \in ItemIds : ~items[i].active /\ items[i].code = form[result.proc].code

\* C13: an item that is inactive is inactive after every step: no operation
\* sets is_active back to 1.
C13_RetirementOneWay ==
    [][\A id \in ItemIds : ~items[id].active => ~items'[id].active]_vars

\* ^X[0-9]+_[0-9]{6} followed by the two-kanji suffix
IsMarker(s) ==
    /\ Len(s) >= 11
    /\ s[1] = "X"
    /\ \A k \in 2..(Len(s) - 9) : IsDigit(s[k])
    /\ s[Len(s) - 8] = "_"
    /\ \A k \in (Len(s) - 7)..(Len(s) - 2) : IsDigit(s[k])
    /\ s[Len(s) - 1] = "HAI"
    /\ s[Len(s)] = "SHI"

\* C14: in every reachable state no inactive item holds a decimal numeral as
\* its code and no active item holds a code of the retirement-marker form.
C14_FlagAgreesWithCode ==
    \A id \in ItemIds :
        /\ ~items[id].active => ~AllDigits(items[id].code)
        /\ items[id].active => ~IsMarker(items[id].code)

\* C15: a retire of an item that is already inactive changes nothing: no step
\* that leaves an inactive item inactive changes its code.
C15_RetireTwiceRejected ==
    [][\A id \in ItemIds :
        (~items[id].active /\ ~items'[id].active)
        => items'[id].code = items[id].code]_vars

\* C16: in every reachable state the code of every inactive item has the
\* retirement-marker form.
C16_RetiredCodeIsMarker ==
    \A id \in ItemIds : ~items[id].active => IsMarker(items[id].code)

\* C17: when two processes hold the same code from get_next_code and both
\* save it as a new item, the save that comes second, right after the first
\* has succeeded, ends with its own item registered as well, under another
\* code.
C17_CollidingCreateRetried ==
    [][\A p \in Procs, name \in TypedNames \ {EmptyText} :
        (/\ master_save(p, name, 0)
         /\ form[p].id = 0
         /\ \E q \in Procs \ {p} :
                form[q] = form[p] /\ result = [proc |-> q, kind |-> "ok"]
         /\ AllDigits(form[p].code)
         /\ HeldByOther(form[p].code, 0)
         /\ Len(items) < MaxItems)
        => /\ Len(items') = Len(items) + 1
           /\ C11_CodesUnique']_vars

\* the deltas of the movements of the processes in S on item id that have
\* updated the stock and not yet written their entry
RECURSIVE PendingDelta(_, _)
PendingDelta(S, id) ==
    IF S = {} THEN 0
    ELSE LET p == CHOOSE q \in S : TRUE
         IN  PendingDelta(S \ {p}, id)
                + (IF op[p].pc = "tx" /\ op[p].item = id THEN Delta(op[p]) ELSE 0)

\* C18: movements of different processes on the same item, their store writes
\* interleaved in any order, lose and duplicate nothing: the ledger holds the
\* entry of the initial store and one entry for every stock update whose
\* movement has ended, and the balance of
\* every item is the replay sum of its entries plus the deltas of the
\* movements still between their two writes, so it is the replay sum once
\* all movements have ended.
C18_InterleavedMovements ==
    /\ Len(transactions) + Cardinality({p \in Procs : op[p].pc = "tx"})
            = moves + 1
    /\ \A id \in ItemIds :
            Balance(id) = ReplaySum(transactions, id) + PendingDelta(Procs, id)

\* an inbound and an outbound of two processes on the same item have both
\* updated the stock, neither has written its entry yet
C18_Witness ==
    /\ op[1].pc = "tx" /\ op[2].pc = "tx"
    /\ op[1].item = op[2].item
    /\ op[1].type # op[2].type
    /\ Balance(op[1].item) # ReplaySum(transactions, op[1].item)

\* C19: the ledger is append-only: every step leaves every entry where it is,
\* with the same row id and the same fields; a step only adds entries after
\* them.
C19_LedgerAppendOnly ==
    [][/\ Len(transactions') >= Len(transactions)
       /\ \A k \in 1..Len(transactions) : transactions'[k] = transactions[k]]_vars

\* the item of the oldest entry has been retired and its code rewritten; the
\* entry is as it was written, and the ledger holds later entries
C19_Witness ==
    /\ Len(transactions) > 1
    /\ LET first == transactions[1]
       IN  /\ ~items[first.item_id].active
           /\ IsMarker(items[first.item_id].code)
           /\ first.type = "IN" /\ first.ts = 0 /\ first.qty \in Quantities

\* C20: movements addressed to an item id that does not exist append no ledger
\* entry and create no balance record: every entry and every stock row refers
\* to an item.
C20_UnknownItemRejected ==
    /\ \A k \in 1..Len(transactions) : transactions[k].item_id \in ItemIds
    /\ DOMAIN stock \subseteq ItemIds

\* the code a retired item held, read back from its retired code
OriginalCode(code) == SubSeq(code, 2, Len(code) - 9)

\* C21: retired items are invisible to lookup: get_item_by_code returns no row
\* for the code a retired item holds, and for the code it held it returns no
\* row or an active item that holds that code now; the rows the stock list
\* shows for a keyword are all of active items.
C21_RetiredInvisible ==
    /\ \A i \in ItemIds :
            ~items[i].active
            => /\ get_item_by_code(items, items[i].code) = 0
               /\ LET found == get_item_by_code(items, OriginalCode(items[i].code))
                  IN  found = 0 \/ (found # i /\ items[found].active)
    /\ result.kind = "items"
            => \A k \in 1..Len(result.rows) : items[result.rows[k].id].active

\* the search of the master tab for the code of a retired item has found
\* nothing, and the code the item held is free
C21_Witness ==
    /\ result.kind = "not_found"
    /\ \E i \in ItemIds :
            /\ ~items[i].active
            /\ form[result.proc].code = items[i].code
            /\ get_item_by_code(items, OriginalCode(items[i].code)) = 0

\* the text s contains the keyword kw, letters compared without regard to case
Contains(s, kw) ==
    \E i \in 1..(Len(s) - Len(kw) + 1) :
        \A j \in 1..Len(kw) : Lower(s[i + j - 1]) = Lower(kw[j])

\* the ledger entry k is within the range [start, end) of the query shown
InRange(k, start, end) ==
    /\ TextLeq(start, Timestamp(transactions[k].ts))
    /\ ~TextLeq(end, Timestamp(transactions[k].ts))

\* C22: the rows a history tab shows are exactly the ledger entries of the
\* requested type, within [start, end) when a range is given, whose item's
\* code or name contains the keyword.
C22_QueryFilter ==
    (result.kind = "rows" /\ result.limit = HistoryLimit)
    => {result.rows[n].id : n \in 1..Len(result.rows)}
        = {k \in 1..Len(transactions) :
            /\ transactions[k].type = result.type
            /\ result.start # None => InRange(k, result.start, result.end)
            /\ \/ Contains(items[transactions[k].item_id].code, result.keyword)
               \/ Contains(items[transactions[k].item_id].name, result.keyword)}

\* C23: the rows a history tab shows come newest first: a row appended later
\* stands before every row appended earlier (also when their timestamps are
\* equal), timestamps never decrease in the order of appending, and a query
\* with a limit, no keyword and no range shows the `limit` entries of its type
\* appended last.
C23_QueryNewestFirst ==
    /\ \A j, k \in 1..Len(transactions) :
            j < k => transactions[j].ts <= transactions[k].ts
    /\ result.kind = "rows"
        => /\ \A n, m \in 1..Len(result.rows) :
                n < m => result.rows[n].id > result.rows[m].id
           /\ (result.keyword = EmptyText /\ result.start = None)
               => LET matches == {k \in 1..Len(transactions) :
                                    transactions[k].type = result.type}
                  IN  {result.rows[n].id : n \in 1..Len(result.rows)}
                        = {k \in matches :
                            Cardinality({j \in matches : j > k}) < result.limit}

\* C24: the rows the stock list shows are exactly the active items whose code
\* or name contains the keyword, in ascending order of the numeric value of
\* their codes, each with the replay sum of its entries as its balance.
C24_SearchResult ==
    result.kind = "items"
    => /\ {result.rows[n].id : n \in 1..Len(result.rows)}
            = {i \in ItemIds :
                /\ items[i].active
                /\ \/ Contains(items[i].code, Strip(result.keyword))
                   \/ Contains(items[i].name, Strip(result.keyword))}
       /\ \A n, m \in 1..Len(result.rows) :
            (n < m /\ AllDigits(result.rows[n].code) /\ AllDigits(result.rows[m].code))
            => DigitsValue(result.rows[n].code, 0) < DigitsValue(result.rows[m].code, 0)
       /\ \A n \in 1..Len(result.rows) :
            /\ result.rows[n].code = items[result.rows[n].id].code
            /\ result.rows[n].qty = ReplaySum(transactions, result.rows[n].id)

\* C25: a movement whose write waits for the store does not wait for good: it
\* goes on or ends, and when it ends without its write the handler's outcome
\* is the busy error of that process, nothing having been written.
C25_BoundedWait ==
    /\ \A p \in Procs : (op[p].pc \in {"update", "tx"}) ~> (op[p].pc = "idle")
    /\ [][\A p \in Procs :
            (op[p].pc \in {"update", "tx"} /\ op'[p] = Idle
                /\ transactions' = transactions)
            => (result' = [proc |-> p, kind |-> "busy"] /\ stock' = stock)]_vars

\* a write of one process has ended busy while the other process is between
\* its two writes
C25_Witness ==
    /\ result.kind = "busy"
    /\ op[result.proc].pc = "idle"
    /\ \E q \in Procs \ {result.proc} : op[q].pc = "tx"

\* C26: the code of every active item is a string of decimal digits whose
\* value is at least the base code.
C26_ActiveCodesNumeral ==
    \A i \in ItemIds :
        items[i].active
        => (AllDigits(items[i].code) /\ DigitsValue(items[i].code, 0) >= BaseCode)

\* C27: deleting an existing active item on the master screen, the question
\* answered yes, ends with the item retired and the handler's outcome ok.
C27_RetireSucceeds ==
    [][\A p \in Procs :
        (/\ master_delete(p, TRUE)
         /\ form[p].id \in ItemIds
         /\ items[form[p].id].active)
        => (/\ result' = [proc |-> p, kind |-> "ok"]
            /\ ~items'[form[p].id].active)]_vars

\* C28: an item that has just been created has the balance 0 and no entry of
\* the ledger, whatever code it was created under.
C28_NewItemEmpty ==
    [][Len(items') = Len(items) + 1
        => (/\ StockQty(stock', Len(items')) = 0
            /\ \A k \in 1..Len(transactions') :
                    transactions'[k].item_id # Len(items'))]_vars

\* C29: the new-code button writes nothing to the store and shows the code
\* get_next_code computes from the item rows, in whatever order the rows are
\* read; the next press, the item rows being the same, shows the same code.
C29_NextCodePure ==
    [][\A p \in Procs :
        master_new(p)
        => (/\ items' = items /\ stock' = stock /\ transactions' = transactions
            /\ form'[p].code = get_next_code(items')
            /\ form'[p].code
                  = get_next_code([i \in ItemIds |-> items[Len(items) + 1 - i]]))]_vars

\* the master screen shows an issued code that is not saved, an item being
\* registered and another one retired: the next press shows that code again
C29_Witness ==
    /\ \E i, j \in ItemIds : items[i].active /\ ~items[j].active
    /\ \E p \in Procs : form[p] = [id |-> 0, code |-> IntToStr(BaseCode + 1)]
    /\ get_next_code(items) = IntToStr(BaseCode + 1)

\* the range of month m of the year box's entry year_text
MonthRange(year_text, m) == get_period_range(year_text, ZeroPad(IntToStr(m), 2))

\* the entries of the year box that name a year
Years == YearTexts \ {AllText}

\* C30: the twelve month ranges of a year follow one another without gap or
\* overlap from the start of the year's range to its end (which is the start
\* of the next year's January), "all" gives no range, every ledger entry is
\* within the range of exactly one month of its year, and a history tab asked
\* for a period shows exactly the entries within its range.
C30_MonthsPartitionYear ==
    /\ \A year_text \in Years :
        LET whole == get_period_range(year_text, AllText)
        IN  /\ MonthRange(year_text, 1).start = whole.start
            /\ MonthRange(year_text, 12).end = whole.end
            /\ whole.end = MonthRange(IntToStr(PyInt(year_text) + 1), 1).start
            /\ \A m \in 1..11 :
                    MonthRange(year_text, m).end = MonthRange(year_text, m + 1).start
            /\ \A m \in 1..12 :
                    ~TextLeq(MonthRange(year_text, m).end, MonthRange(year_text, m).start)
            /\ \A k \in 1..Len(transactions) :
                    Cardinality({m \in 1..12 :
                        InRange(k, MonthRange(year_text, m).start,
                                   MonthRange(year_text, m).end)})
                      = IF InRange(k, whole.start, whole.end) THEN 1 ELSE 0
    /\ \A month_text \in MonthTexts :
            /\ get_period_range(AllText, month_text).start = None
            /\ get_period_range(AllText, month_text).end = None
    /\ (result.kind = "rows" /\ result.start # None)
        => {result.rows[n].id : n \in 1..Len(result.rows)}
            = {k \in 1..Len(transactions) :
                /\ transactions[k].type = result.type
                /\ InRange(k, result.start, result.end)}

\* the inbound history of one month shows an entry of that month and leaves
\* out an entry of another month
C30_Witness ==
    /\ result.kind = "rows"
    /\ \E year_text \in Years, m \in 1..12 :
            /\ result.start = MonthRange(year_text, m).start
            /\ result.end = MonthRange(year_text, m).end
    /\ \E j, k \in 1..Len(transactions) :
            /\ \E n \in 1..Len(result.rows) : result.rows[n].id = j
            /\ \A n \in 1..Len(result.rows) : result.rows[n].id # k
            /\ transactions[k].type = result.type

====
